---------------------------- MODULE Spec2Model ----------------------------
(***************************************************************************)
(* State-machine model of the View widget of 8Altair/3D-objects            *)
(* (src/unnamed/part_002 = view_3D.cpp, src/unnamed/part_000 = view_3D.h,  *)
(* src/unnamed/part_001 = main_window.cpp).                                *)
(*                                                                         *)
(* Number representation.  The widget works on 32-bit floats; the model    *)
(* works on integers in fixed point:                                       *)
(*   - lengths and coordinates in ticks of 0.05 world units (20 per unit), *)
(*     so epsilon 0.05 = 1, kGroundPlaneY = -1.85 = -37, 0.5 = 10;         *)
(*   - uniform scale in hundredths (1.0 = 100, 0.25 = 25, 8.0 = 800);      *)
(*   - angles in whole degrees; sines and cosines in thousandths;          *)
(*   - pixels as integers.                                                 *)
(* A float operation is modelled by the same operation on these integers,  *)
(* rounded to the grid.                                                    *)
(***************************************************************************)
EXTENDS Integers, Sequences, FiniteSets, TLC

VARIABLES
    imported_objects_,       \* std::vector<ImportedObject>
    selected_object_index_,  \* int, -1 = none, otherwise 0-based index
    dragging_object_,        \* bool
    drag_offset_,            \* glm::vec3
    cam_position,            \* glm::vec3
    cam_rotation_degree,     \* glm::vec3 (pitch, yaw, roll)
    focus_point_,            \* glm::vec3
    last_mouse,              \* QPoint
    rotating,                \* bool
    panning,                 \* bool
    scrolling_navigation_,   \* bool
    color_mode_,             \* ColorMode
    viewport,                \* <<width(), height()>> of the widget
    gl_vertex_arrays,        \* live vertex-array names of the GL context
    gl_buffers,              \* live buffer names of the GL context
    held,                    \* mouse buttons physically down (event source)
    notified,                \* pose carried by the last camera signals
    emits,                   \* emit_camera_state calls made by the last handler
    returned,                \* what the last handler returned to its caller
    alive,                   \* the widget has not been destroyed
    changes                  \* events since the last reset that moved the
                             \* camera or moved or rescaled an object

vars == <<imported_objects_, selected_object_index_, dragging_object_,
          drag_offset_, cam_position, cam_rotation_degree, focus_point_,
          last_mouse, rotating, panning, scrolling_navigation_, color_mode_,
          viewport, gl_vertex_arrays, gl_buffers, held, notified, emits,
          returned, alive, changes>>

-----------------------------------------------------------------------------
(* Program constants (src/unnamed/part_002:19-22), in the model's units.   *)

kGroundPlaneY == -37
kMinObjectScale == 25
kMaxObjectScale == 800

(* Bounds of the model.                                                    *)

MaxObjects == 2        \* Spec: objects in the scene
MaxChanges == 1        \* Spec: object changes between two resets
MaxPlaced == 3         \* SpecPlacement: objects in the scene
MaxSceneChanges == 1   \* SpecPlacement: object changes between two resets
MaxCameraChanges == 1  \* SpecCamera: camera changes between two resets
MaxLoaded == 1         \* SpecCamera and SpecImport: objects in the scene
MaxWheelObjects == 2   \* SpecWheel: objects in the scene
MaxWheelChanges == 2   \* SpecWheel: wheel events with effect between resets
MaxResetObjects == 1
MaxResetChanges == 1
MaxPickObjects == 2
MaxGroundObjects == 1
MaxGroundChanges == 2
MaxOrbitObjects == 1
MaxOrbitChanges == 2
MaxViewChanges == 2
WorldRange == 210      \* object X and Z stay within this of the origin

-----------------------------------------------------------------------------
(* Arithmetic helpers.                                                     *)

Abs(x) == IF x < 0 THEN -x ELSE x

Max2(a, b) == IF a < b THEN b ELSE a

Min2(a, b) == IF b < a THEN b ELSE a

\* std::clamp(v, lo, hi)
Clamp(v, lo, hi) == IF v < lo THEN lo ELSE IF hi < v THEN hi ELSE v

\* division rounded to the nearest integer (ties away from zero)
RoundDiv(n, d) == IF n >= 0 THEN (2 * n + d) \div (2 * d)
                  ELSE -((2 * (-n) + d) \div (2 * d))

RECURSIVE SqrtSearch(_, _, _)
SqrtSearch(n, lo, hi) ==
    IF lo >= hi THEN lo
    ELSE LET mid == (lo + hi + 1) \div 2
         IN  IF mid * mid <= n THEN SqrtSearch(n, mid, hi)
             ELSE SqrtSearch(n, lo, mid - 1)

\* std::sqrt / glm::length on the integer grid: floor of the square root
ISqrt(n) == IF n <= 0 THEN 0 ELSE SqrtSearch(n, 0, Min2(n, 46340))

Dot(a, b) == a[1] * b[1] + a[2] * b[2] + a[3] * b[3]

VAdd(a, b) == <<a[1] + b[1], a[2] + b[2], a[3] + b[3]>>

VSub(a, b) == <<a[1] - b[1], a[2] - b[2], a[3] - b[3]>>

Origin == <<0, 0, 0>>

\* sin of a whole number of degrees in [0, 180], in thousandths
\* (Bhaskara's rational approximation, error below 0.002)
SinHalfTurn(d) == (4000 * d * (180 - d)) \div (40500 - d * (180 - d))

\* std::sin on degrees, in thousandths
Sin1000(deg) ==
    LET d == deg % 360
    IN  IF d <= 180 THEN SinHalfTurn(d) ELSE -SinHalfTurn(d - 180)

\* std::cos on degrees, in thousandths
Cos1000(deg) == Sin1000(deg + 90)

-----------------------------------------------------------------------------
(* The view matrix.  A matrix is kept as its 3x3 linear part, in           *)
(* thousandths, and its translation column, in ticks (the last row of      *)
(* every matrix built here is 0 0 0 1).                                    *)

\* the product of two linear parts
Mul3(A, B) ==
    [i \in 1..3 |-> [j \in 1..3 |->
        RoundDiv(A[i][1] * B[1][j] + A[i][2] * B[2][j] + A[i][3] * B[3][j],
                 1000)]]

\* a linear part applied to a vector of ticks
Apply3(A, v) ==
    [i \in 1..3 |-> RoundDiv(A[i][1] * v[1] + A[i][2] * v[2] + A[i][3] * v[3],
                             1000)]

\* glm::rotate about (0,0,1), (1,0,0) and (0,1,0) by `deg` degrees
RotateZ(deg) ==
    << <<Cos1000(deg), -Sin1000(deg), 0>>,
       <<Sin1000(deg),  Cos1000(deg), 0>>,
       <<0, 0, 1000>> >>

RotateX(deg) ==
    << <<1000, 0, 0>>,
       <<0, Cos1000(deg), -Sin1000(deg)>>,
       <<0, Sin1000(deg),  Cos1000(deg)>> >>

RotateY(deg) ==
    << << Cos1000(deg), 0, Sin1000(deg)>>,
       <<0, 1000, 0>>,
       <<-Sin1000(deg), 0, Cos1000(deg)>> >>

\* V = Rz(-roll) * Rx(-pitch) * Ry(-yaw), the rotations of build_view_matrix
ViewRotation(rotation) ==
    Mul3(Mul3(RotateZ(-rotation[3]), RotateX(-rotation[1])),
         RotateY(-rotation[2]))

\* the mutation of build_view_matrix that translates before it rotates:
\* T(-position) * R
build_view_matrix_translate_first ==
    [linear |-> ViewRotation(cam_rotation_degree),
     translation |-> <<-cam_position[1], -cam_position[2], -cam_position[3]>>]

\* View::build_view_matrix: glm::translate(V, -cam_position) multiplies on
\* the right, so the translation column is R * (-cam_position)
build_view_matrix ==
    [linear |-> ViewRotation(cam_rotation_degree),
     translation |->
         Apply3(ViewRotation(cam_rotation_degree),
                <<-cam_position[1], -cam_position[2], -cam_position[3]>>)]

\* a matrix applied to a point: M * (point, 1)
Transform(M, point) == VAdd(Apply3(M.linear, point), M.translation)

\* the cofactor of entry (i, j) of a linear part, in millionths
Cofactor(A, i, j) ==
    LET r1 == IF i = 1 THEN 2 ELSE 1
        r2 == IF i = 3 THEN 2 ELSE 3
        c1 == IF j = 1 THEN 2 ELSE 1
        c2 == IF j = 3 THEN 2 ELSE 3
        minor == A[r1][c1] * A[r2][c2] - A[r1][c2] * A[r2][c1]
    IN  IF (i + j) % 2 = 0 THEN minor ELSE -minor

\* glm::inverse of a matrix built here: adjugate over determinant for the
\* linear part, and -inverse(linear) * translation for the last column
Inverse(M) ==
    LET A   == M.linear
        \* the determinant in millionths
        det == A[1][1] * RoundDiv(Cofactor(A, 1, 1), 1000)
                 + A[1][2] * RoundDiv(Cofactor(A, 1, 2), 1000)
                 + A[1][3] * RoundDiv(Cofactor(A, 1, 3), 1000)
        sgn == IF det < 0 THEN -1 ELSE 1
        adj == [i \in 1..3 |-> [j \in 1..3 |-> Cofactor(A, j, i)]]
        column(i) ==
            -(adj[i][1] * M.translation[1] + adj[i][2] * M.translation[2]
                + adj[i][3] * M.translation[3])
    IN  [linear |-> [i \in 1..3 |-> [j \in 1..3 |->
                        RoundDiv(sgn * adj[i][j], sgn * RoundDiv(det, 1000))]],
         translation |-> [i \in 1..3 |-> RoundDiv(sgn * column(i), sgn * det)]]

-----------------------------------------------------------------------------
(* Picking engine: compute_ray, intersect_ground_plane, pick_object.       *)

FloatMax == 2147483647

\* k * sqrt(D) < B for integers D >= 0, B >= 0, k > 0, computed without
\* squaring B (the comparison "glm::length(delta) < sum" of load_object)
SqrtLess(D, B, k) ==
    LET q == B \div k
        r == B % k
        s == ISqrt(D)
    IN  IF s < q THEN TRUE
        ELSE IF s > q THEN FALSE
        ELSE k * k * (D - q * q) < 2 * q * r * k + r * r

\* The ray under the cursor.  The direction is fixed by the pixel, the
\* projection and the camera rotation; the model takes the resulting
\* world-space direction `dir` as the event's input (an integer vector,
\* not normalised: every test below is invariant under its length, and
\* the ray parameter t is measured in units of |dir|).
compute_ray(dir) ==
    IF viewport[1] <= 0 \/ viewport[2] <= 0
    THEN [ok |-> FALSE, origin |-> Origin, direction |-> Origin]
    ELSE [ok |-> TRUE, origin |-> cam_position, direction |-> dir]

\* the mutation of NearParallel that rejects only denominator == 0
ExactlyParallel(direction) == direction[2] = 0

\* std::abs(denominator) < 1e-4f, denominator the Y of the unit direction
NearParallel(direction) ==
    10000 * Abs(direction[2]) <= ISqrt(Dot(direction, direction) - 1)

\* hit_point.y = kGroundPlaneY
SnapHit(p) == <<p[1], kGroundPlaneY, p[3]>>

\* intersect_ground_plane on a ray; `hit` is meaningful only when ok
GroundHit(ray) ==
    IF ~ray.ok THEN [ok |-> FALSE, hit |-> Origin]
    ELSE IF NearParallel(ray.direction) THEN [ok |-> FALSE, hit |-> Origin]
    ELSE LET num == kGroundPlaneY - ray.origin[2]
             den == ray.direction[2]
             neg == IF den < 0 THEN -1 ELSE 1
             \* origin + t * direction with t = num / den
             along(i) == ray.origin[i] +
                         RoundDiv(neg * num * ray.direction[i], neg * den)
         IN  IF num * den < 0 THEN [ok |-> FALSE, hit |-> Origin]
             ELSE [ok |-> TRUE,
                   hit |-> SnapHit(<<along(1), along(2), along(3)>>)]

\* intersect_ground_plane with its output parameter: hit_point is assigned
\* only on the path that returns true
GroundHitInto(ray, hit_point) ==
    IF GroundHit(ray).ok
    THEN [ok |-> TRUE, hit |-> GroundHit(ray).hit]
    ELSE [ok |-> FALSE, hit |-> hit_point]

\* the mutation of intersect_ground_plane that never finds the ground
ground_plane_never_hit(dir) == [ok |-> FALSE, hit |-> Origin]

\* the mutation of intersect_ground_plane that also accepts a ray pointing
\* away from the ground, by mirroring it
ground_plane_mirrored(dir) ==
    GroundHit(compute_ray(<<dir[1], -Abs(dir[2]), dir[3]>>))

intersect_ground_plane(dir) == GroundHit(compute_ray(dir))

\* The ray parameter at which the ray meets the object's bounding sphere,
\* in hundredths, or -1 when the object is skipped (miss, or behind).
SphereT(ray, object) ==
    LET center == object.translation
        r2 == ((object.radius * object.scale) * (object.radius * object.scale))
                  \div 10000
        origin_center == VSub(ray.origin, center)
        a == Dot(ray.direction, ray.direction)
        b == 2 * Dot(origin_center, ray.direction)
        c == Dot(origin_center, origin_center) - r2
        discriminant == b * b - 4 * a * c
        sqrt_discriminant == ISqrt(discriminant)
        t1 == ((-b - sqrt_discriminant) * 100) \div (2 * a)
        t2 == ((-b + sqrt_discriminant) * 100) \div (2 * a)
        t == IF t1 < 0 THEN t2 ELSE t1
    IN  IF discriminant < 0 THEN -1
        ELSE IF t < 0 THEN -1
        ELSE t

\* the mutation of Closer that lets a later object at the same distance win
CloserOrEqual(t, closest_t) == t <= closest_t

\* if (t < closest_t) { closest_t = t; best_index = i; }
Closer(t, closest_t) == t < closest_t

RECURSIVE PickLoop(_, _, _, _, _)
PickLoop(ray, objects, i, best_index, closest_t) ==
    IF i > Len(objects) THEN best_index
    ELSE LET t == SphereT(ray, objects[i])
         IN  IF t >= 0 /\ Closer(t, closest_t)
             THEN PickLoop(ray, objects, i + 1, i - 1, t)
             ELSE PickLoop(ray, objects, i + 1, best_index, closest_t)

\* pick_object on a ray: 0-based index of the nearest hit, -1 if none
PickOnRay(ray, objects) ==
    IF ~ray.ok THEN -1
    ELSE PickLoop(ray, objects, 1, -1, FloatMax)

\* the mutation of pick_object that reports the first object whatever the
\* ray
pick_first_object(dir) == IF imported_objects_ = <<>> THEN -1 ELSE 0

pick_object(dir) == PickOnRay(compute_ray(dir), imported_objects_)

-----------------------------------------------------------------------------
(* Scene model: mesh import, placement, deletion.                          *)

\* What Assimp returns for each file offered to load_object, the vertex
\* list being the triangle vertices that survive the face loop.
Content(file) ==
    CASE file = "missing.obj" ->
           [scene |-> FALSE, has_meshes |-> FALSE, has_positions |-> FALSE,
            vertices |-> {}]
      [] file = "nomesh.obj" ->
           [scene |-> TRUE, has_meshes |-> FALSE, has_positions |-> FALSE,
            vertices |-> {}]
      [] file = "nopositions.obj" ->
           [scene |-> TRUE, has_meshes |-> TRUE, has_positions |-> FALSE,
            vertices |-> {}]
      [] file = "notriangles.obj" ->
           [scene |-> TRUE, has_meshes |-> TRUE, has_positions |-> TRUE,
            vertices |-> {}]
      [] file = "cube.obj" ->
           [scene |-> TRUE, has_meshes |-> TRUE, has_positions |-> TRUE,
            vertices |-> {<<0, 0, 0>>, <<20, 20, 20>>, <<20, 0, 0>>}]
      [] file = "slab.obj" ->
           [scene |-> TRUE, has_meshes |-> TRUE, has_positions |-> TRUE,
            vertices |-> {<<-20, 4, 0>>, <<20, 14, 20>>, <<0, 4, 20>>}]

MinOf(S) == CHOOSE x \in S : \A y \in S : x <= y

MaxOf(S) == CHOOSE x \in S : \A y \in S : y <= x

\* ImportedObject's default member values (part_000:258-267)
DefaultObject ==
    [vao |-> 0, vbo |-> 0, translation |-> Origin,
     base_footprint |-> 20, radius |-> 20, scale |-> 100]

\* The mutation of ImportMesh that drops the vertices.empty() check: the
\* bounding box stays at its float limits and the footprint falls to 1.5.
ImportMeshNoEmptyCheck(file) ==
    LET c == Content(file)
    IN  IF ~c.scene \/ ~c.has_meshes \/ ~c.has_positions
        THEN [ok |-> FALSE, base_footprint |-> 0, radius |-> 0]
        ELSE [ok |-> TRUE, base_footprint |-> 30, radius |-> 0]

\* load_object up to the GPU allocation: the checks that fail the import,
\* the bounding box, the recentring and the derived footprint and radius
ImportMesh(file) ==
    LET c == Content(file)
    IN  IF ~c.scene \/ ~c.has_meshes THEN
            [ok |-> FALSE, base_footprint |-> 0, radius |-> 0]
        ELSE IF ~c.has_positions THEN
            [ok |-> FALSE, base_footprint |-> 0, radius |-> 0]
        ELSE IF c.vertices = {} THEN
            [ok |-> FALSE, base_footprint |-> 0, radius |-> 0]
        ELSE
            LET min_x == MinOf({v[1] : v \in c.vertices})
                max_x == MaxOf({v[1] : v \in c.vertices})
                min_y == MinOf({v[2] : v \in c.vertices})
                min_z == MinOf({v[3] : v \in c.vertices})
                max_z == MaxOf({v[3] : v \in c.vertices})
                center_x == (min_x + max_x) \div 2
                center_z == (min_z + max_z) \div 2
                moved == {<<v[1] - center_x, v[2] - min_y, v[3] - center_z>> :
                             v \in c.vertices}
                max_radius_sq == MaxOf({0} \cup {Dot(v, v) : v \in moved})
            IN  [ok |-> TRUE,
                 base_footprint |->
                     MaxOf({20, max_x - min_x, max_z - min_z}) + 10,
                 radius |-> ISqrt(max_radius_sq)]

\* glGenVertexArrays / glGenBuffers: an unused name
FreshName(live) == MinOf({n \in 1..(Cardinality(live) + 1) : n \notin live})

\* the mutation of DesiredTranslation that starts at the world origin
DesiredTranslationAtOrigin == <<0, 0, 0>>

\* glm::vec3 desired_translation{0.0f, kGroundPlaneY, 0.0f}
DesiredTranslation == <<0, kGroundPlaneY, 0>>

\* the mutation of Overlaps that leaves the epsilon out
OverlapsNoEpsilon(position, object, objects) ==
    \E i \in 1..Len(objects) :
        LET existing == objects[i]
            dx == existing.translation[1] - position[1]
            dz == existing.translation[3] - position[3]
        IN  SqrtLess(dx * dx + dz * dz,
                     existing.base_footprint * existing.scale
                         + object.base_footprint * object.scale,
                     200)

\* the overlaps lambda of load_object: radii are footprint * scale * 0.5
\* (in ticks: / 200) and epsilon is 0.05 (1 tick), so the test
\* length(delta) < existing_radius + new_radius + epsilon is
\* 200 * length(delta) < fe * se + fn * sn + 200
Overlaps(position, object, objects) ==
    \E i \in 1..Len(objects) :
        LET existing == objects[i]
            dx == existing.translation[1] - position[1]
            dz == existing.translation[3] - position[3]
        IN  SqrtLess(dx * dx + dz * dz,
                     existing.base_footprint * existing.scale
                         + object.base_footprint * object.scale + 200,
                     200)

\* the mutation of PlacementStep that advances by half a footprint
PlacementHalfStep(object) == (object.base_footprint * object.scale) \div 200

\* desired_translation.x += object.base_footprint * object.scale
PlacementStep(object) == (object.base_footprint * object.scale) \div 100

RECURSIVE PlaceLoop(_, _, _)
PlaceLoop(position, object, objects) ==
    IF Overlaps(position, object, objects)
    THEN PlaceLoop(<<position[1] + PlacementStep(object), position[2],
                     position[3]>>, object, objects)
    ELSE position

\* the placement of load_object: the first free spot along +X
Place(object, objects) == PlaceLoop(DesiredTranslation, object, objects)

-----------------------------------------------------------------------------
(* Initial state: the member initialisers of View (part_000:299-328).      *)

DefaultCamPosition == <<60, 70, 300>>

DefaultCamRotation == <<-15, 15, 0>>

NoPose == [position |-> <<>>, rotation |-> <<>>]

ColorModes == {"Uniform", "Position", "Normal", "UV", "PositionNormal"}

Init ==
    /\ imported_objects_ = <<>>
    /\ selected_object_index_ = -1
    /\ dragging_object_ = FALSE
    /\ drag_offset_ = Origin
    /\ cam_position = DefaultCamPosition
    /\ cam_rotation_degree = DefaultCamRotation
    /\ focus_point_ = Origin
    /\ last_mouse = <<0, 0>>
    /\ rotating = FALSE
    /\ panning = FALSE
    /\ scrolling_navigation_ = FALSE
    /\ color_mode_ = "Uniform"
    /\ viewport = <<800, 600>>
    /\ gl_vertex_arrays = {}
    /\ gl_buffers = {}
    /\ held = {}
    /\ notified = NoPose
    /\ emits = 0
    /\ returned = "void"
    /\ alive = TRUE
    /\ changes = 0

-----------------------------------------------------------------------------
(* Pieces shared by the handlers.                                          *)

sceneV == <<imported_objects_, gl_vertex_arrays, gl_buffers>>
selV == <<selected_object_index_, focus_point_>>
dragV == <<dragging_object_, drag_offset_>>
camV == <<cam_position, cam_rotation_degree>>
modeV == <<rotating, panning, scrolling_navigation_>>
widgetV == <<color_mode_, viewport, alive>>

\* selected_object_index_ >= 0 && selected_object_index_ < size()
SelectionValid ==
    /\ selected_object_index_ >= 0
    /\ selected_object_index_ < Len(imported_objects_)

\* imported_objects_[selected_object_index_]
Selected == imported_objects_[selected_object_index_ + 1]

\* the mutation of emit_camera_state that sends the position twice
emit_position_twice(position, rotation) ==
    [position |-> position, rotation |-> position]

\* emit_camera_state: the two signals carry the six current values, and
\* MainWindow's slots put them in the toolbar's line edits
emit_camera_state(position, rotation) ==
    [position |-> position, rotation |-> rotation]

Emit ==
    /\ notified' = emit_camera_state(cam_position', cam_rotation_degree')
    /\ emits' = 1

NoEmit ==
    /\ UNCHANGED notified
    /\ emits' = 0

\* the translation and scale of every object
Placement(objects) ==
    [i \in 1..Len(objects) |-> <<objects[i].translation, objects[i].scale>>]

\* the model's cut-off: between two resets at most max_camera events move
\* the camera and at most max_scene events move or rescale an object (one
\* counter for both), and the objects stay near the origin
WithinBounds(max_camera, max_scene) ==
    LET camera_changed == camV' # camV
        scene_changed  == /\ Len(imported_objects_') = Len(imported_objects_)
                          /\ Placement(imported_objects_') #
                                 Placement(imported_objects_)
    IN  /\ changes' = IF camera_changed \/ scene_changed
                      THEN changes + 1 ELSE changes
        /\ camera_changed => changes' <= max_camera
        /\ scene_changed => changes' <= max_scene
        /\ \A i \in 1..Len(imported_objects_') :
              /\ Abs(imported_objects_'[i].translation[1]) <= WorldRange
              /\ Abs(imported_objects_'[i].translation[3]) <= WorldRange

-----------------------------------------------------------------------------
(* Mouse handlers.                                                         *)

\* the mutation of mousePressEvent in which a primary press that hits an
\* object selects it
mousePressEvent_selects_hit(button, pos, dir) ==
    /\ last_mouse' = pos
    /\ CASE button = "Right" ->
              /\ IF SelectionValid
                 THEN LET g == intersect_ground_plane(dir)
                      IN  IF g.ok
                          THEN /\ dragging_object_' = TRUE
                               /\ drag_offset_' =
                                      VSub(Selected.translation, g.hit)
                               /\ UNCHANGED panning
                          ELSE /\ dragging_object_' = FALSE
                               /\ panning' = TRUE
                               /\ UNCHANGED drag_offset_
                 ELSE /\ panning' = TRUE
                      /\ UNCHANGED dragV
              /\ UNCHANGED <<selV, rotating, scrolling_navigation_>>
         [] button = "Left" ->
              /\ IF pick_object(dir) >= 0
                 THEN /\ selected_object_index_' = pick_object(dir)
                      /\ focus_point_' =
                             imported_objects_[pick_object(dir) + 1].translation
                 ELSE /\ selected_object_index_' = -1
                      /\ focus_point_' = Origin
              /\ rotating' = TRUE
              /\ UNCHANGED <<dragV, panning, scrolling_navigation_>>
         [] button = "Middle" ->
              /\ scrolling_navigation_' = TRUE
              /\ UNCHANGED <<selV, dragV, rotating, panning>>
    /\ NoEmit
    /\ UNCHANGED <<sceneV, camV, widgetV>>

\* View::mousePressEvent, without the bookkeeping of the event source
mousePressEvent(button, pos, dir) ==
    /\ last_mouse' = pos
    /\ CASE button = "Right" ->
              /\ IF SelectionValid
                 THEN LET g == intersect_ground_plane(dir)
                      IN  IF g.ok
                          THEN /\ dragging_object_' = TRUE
                               /\ drag_offset_' =
                                      VSub(Selected.translation, g.hit)
                               /\ UNCHANGED panning
                          ELSE /\ dragging_object_' = FALSE
                               /\ panning' = TRUE
                               /\ UNCHANGED drag_offset_
                 ELSE /\ panning' = TRUE
                      /\ UNCHANGED dragV
              /\ UNCHANGED <<selV, rotating, scrolling_navigation_>>
         [] button = "Left" ->
              /\ IF SelectionValid /\ pick_object(dir) < 0
                 THEN /\ selected_object_index_' = -1
                      /\ focus_point_' = Origin
                 ELSE UNCHANGED selV
              /\ rotating' = TRUE
              /\ UNCHANGED <<dragV, panning, scrolling_navigation_>>
         [] button = "Middle" ->
              /\ scrolling_navigation_' = TRUE
              /\ UNCHANGED <<selV, dragV, rotating, panning>>
    /\ NoEmit
    /\ UNCHANGED <<sceneV, camV, widgetV>>

\* the mutation of PanningAfterRightRelease that never stops the pan
PanningKeptOnRelease(dragging, pan) == pan

\* if (dragging_object_) dragging_object_ = false; else panning = false;
PanningAfterRightRelease(dragging, pan) == IF dragging THEN pan ELSE FALSE

\* View::mouseReleaseEvent
mouseReleaseEvent(button) ==
    /\ CASE button = "Left" ->
              /\ rotating' = FALSE
              /\ UNCHANGED <<dragging_object_, panning, scrolling_navigation_>>
         [] button = "Right" ->
              /\ dragging_object_' = FALSE
              /\ panning' = PanningAfterRightRelease(dragging_object_, panning)
              /\ UNCHANGED <<rotating, scrolling_navigation_>>
         [] button = "Middle" ->
              /\ scrolling_navigation_' = FALSE
              /\ UNCHANGED <<rotating, dragging_object_, panning>>
    /\ NoEmit
    /\ UNCHANGED <<sceneV, selV, drag_offset_, camV, last_mouse, widgetV>>

\* the mutation of SelectHit that stores a 1-based index
SelectHitOneBased(hit_index) == hit_index + 1

\* selected_object_index_ = hit_index
SelectHit(hit_index) == hit_index

\* QOpenGLWidget::mouseDoubleClickEvent(event), which is QWidget's: the
\* library documents it as calling mousePressEvent(event), and its
\* implementations since Qt 5 ignore the event; either may be what the build
\* does
QWidget_mouseDoubleClickEvent(button, pos, dir) ==
    \/ mousePressEvent(button, pos, dir)
    \/ /\ NoEmit
       /\ UNCHANGED <<sceneV, selV, dragV, camV, modeV, last_mouse, widgetV>>

\* the mutation of mouseDoubleClickEvent that selects without stopping the
\* drag
mouseDoubleClickEvent_keeps_drag(button, pos, dir) ==
    IF button = "Left" /\ pick_object(dir) >= 0
    THEN LET hit_index == pick_object(dir)
         IN  /\ selected_object_index_' = SelectHit(hit_index)
             /\ focus_point_' = imported_objects_[hit_index + 1].translation
             /\ rotating' = FALSE
             /\ NoEmit
             /\ UNCHANGED <<sceneV, dragV, camV, last_mouse, panning,
                            scrolling_navigation_, widgetV>>
    ELSE QWidget_mouseDoubleClickEvent(button, pos, dir)

\* View::mouseDoubleClickEvent; on a miss, or for another button, the event
\* goes to QOpenGLWidget::mouseDoubleClickEvent
mouseDoubleClickEvent(button, pos, dir) ==
    IF button = "Left" /\ pick_object(dir) >= 0
    THEN LET hit_index == pick_object(dir)
         IN  /\ selected_object_index_' = SelectHit(hit_index)
             /\ focus_point_' = imported_objects_[hit_index + 1].translation
             /\ dragging_object_' = FALSE
             /\ rotating' = FALSE
             /\ NoEmit
             /\ UNCHANGED <<sceneV, drag_offset_, camV, last_mouse, panning,
                            scrolling_navigation_, widgetV>>
    ELSE QWidget_mouseDoubleClickEvent(button, pos, dir)

\* the mutation of DragTranslation that lets the object follow the cursor
\* without the recorded offset
DragToCursor(hit, offset) == <<hit[1], kGroundPlaneY, hit[3]>>

\* new_translation = hit + drag_offset_; new_translation.y = kGroundPlaneY
DragTranslation(hit, offset) ==
    <<hit[1] + offset[1], kGroundPlaneY, hit[3] + offset[3]>>

\* cam_rotation_degree after an OrbitCamera move: 0.3 degrees per pixel
OrbitRotation(rotation, dx, dy) ==
    <<rotation[1] + RoundDiv(3 * dy, 10), rotation[2] + RoundDiv(3 * dx, 10),
      rotation[3]>>

\* cam_position after a PanCamera move: 0.01 units (0.2 ticks) per pixel
PanPosition(position, dx, dy, shift) ==
    IF shift
    THEN <<position[1], position[2] + RoundDiv(-dy, 5), position[3]>>
    ELSE <<position[1] + RoundDiv(dx, 5), position[2],
           position[3] + RoundDiv(dy, 5)>>

\* yaw in degrees after an OrbitAroundFocus move: 0.005 rad = 0.2865
\* degrees per pixel
FocusOrbitYaw(yaw, dx) == yaw - RoundDiv(dx * 2865, 10000)

\* the mutation of FocusOrbitPosition that takes the radius from the whole
\* offset, glm::length(offset), instead of its XZ part
FocusOrbitPositionFullLength(position, focus, yaw) ==
    LET offset == VSub(position, focus)
        height == offset[2]
        radius == Max2(ISqrt(Dot(offset, offset)), 5)
    IN  VAdd(focus, <<RoundDiv(radius * Sin1000(yaw), 1000), height,
                      RoundDiv(radius * Cos1000(yaw), 1000)>>)

\* cam_position after an OrbitAroundFocus move to the new yaw
FocusOrbitPosition(position, focus, yaw) ==
    LET offset == VSub(position, focus)
        height == offset[2]
        radius == Max2(ISqrt(offset[1] * offset[1] + offset[3] * offset[3]), 5)
    IN  VAdd(focus, <<RoundDiv(radius * Sin1000(yaw), 1000), height,
                      RoundDiv(radius * Cos1000(yaw), 1000)>>)

\* View::mouseMoveEvent
mouseMoveEvent(pos, shift, dir) ==
    LET dx == pos[1] - last_mouse[1]
        dy == pos[2] - last_mouse[2]
    IN
    /\ last_mouse' = pos
    /\ IF dragging_object_ /\ SelectionValid THEN
          LET g == intersect_ground_plane(dir)
          IN  /\ IF g.ok
                 THEN imported_objects_' =
                        [imported_objects_ EXCEPT
                           ![selected_object_index_ + 1].translation =
                               DragTranslation(g.hit, drag_offset_)]
                 ELSE UNCHANGED imported_objects_
              /\ NoEmit
              /\ UNCHANGED camV
       ELSE IF scrolling_navigation_ THEN
          LET yaw == FocusOrbitYaw(cam_rotation_degree[2], dx)
          IN  /\ cam_position' =
                     FocusOrbitPosition(cam_position, focus_point_, yaw)
              /\ cam_rotation_degree' =
                     [cam_rotation_degree EXCEPT ![2] = yaw]
              /\ Emit
              /\ UNCHANGED imported_objects_
       ELSE IF rotating THEN
          /\ cam_rotation_degree' = OrbitRotation(cam_rotation_degree, dx, dy)
          /\ UNCHANGED <<cam_position, imported_objects_>>
          /\ Emit
       ELSE IF panning THEN
          /\ cam_position' = PanPosition(cam_position, dx, dy, shift)
          /\ UNCHANGED <<cam_rotation_degree, imported_objects_>>
          /\ Emit
       ELSE
          /\ NoEmit
          /\ UNCHANGED <<camV, imported_objects_>>
    /\ UNCHANGED <<gl_vertex_arrays, gl_buffers, selV, dragV, modeV, widgetV>>

-----------------------------------------------------------------------------
(* Wheel and keyboard handlers.                                            *)

RECURSIVE PowFactor(_)
\* std::pow(1.1f, steps), in thousandths
PowFactor(steps) ==
    IF steps = 0 THEN 1000
    ELSE IF steps > 0 THEN (PowFactor(steps - 1) * 11) \div 10
    ELSE (PowFactor(steps + 1) * 10) \div 11

\* the mutation of WheelScale that leaves the clamp out
WheelScaleUnclamped(scale, steps) == (scale * PowFactor(steps)) \div 1000

\* the mutation of WheelScale that grows the scale by a tenth per detent
WheelScaleLinear(scale, steps) ==
    Clamp(scale + 10 * steps, kMinObjectScale, kMaxObjectScale)

\* std::clamp(object.scale * factor, kMinObjectScale, kMaxObjectScale)
WheelScale(scale, steps) ==
    Clamp((scale * PowFactor(steps)) \div 1000, kMinObjectScale, kMaxObjectScale)

\* the mutation of DollyPosition that dollies the wrong way
DollyPositionBackwards(position, steps) ==
    <<position[1], position[2], position[3] + 10 * steps>>

\* cam_position.z += -0.5f * steps (0.5 units = 10 ticks)
DollyPosition(position, steps) ==
    <<position[1], position[2], position[3] - 10 * steps>>

\* View::wheelEvent; angle_delta is event->angleDelta().y(), a multiple of
\* the 120 units of one detent
wheelEvent(angle_delta) ==
    LET steps == angle_delta \div 120
    IN  IF steps = 0 THEN
           /\ NoEmit
           /\ UNCHANGED <<sceneV, camV>>
        ELSE IF SelectionValid THEN
           /\ imported_objects_' =
                 [imported_objects_ EXCEPT
                    ![selected_object_index_ + 1].scale =
                        WheelScale(Selected.scale, steps)]
           /\ NoEmit
           /\ UNCHANGED <<gl_vertex_arrays, gl_buffers, camV>>
        ELSE
           /\ cam_position' = DollyPosition(cam_position, steps)
           /\ UNCHANGED <<sceneV, cam_rotation_degree>>
           /\ Emit

CameraKeys == {"W", "S", "A", "D", "R", "F", "J", "L", "I", "K", "U", "O"}

\* the switch of keyPressEvent: the pose after a camera key
KeyPose(key, shift, position, rotation) ==
    LET move == IF shift THEN 5 ELSE 2
        rotate == 2
        P(i, d) == [position EXCEPT ![i] = @ + d]
        T(i, d) == [rotation EXCEPT ![i] = @ + d]
    IN  CASE key = "W" -> <<P(3, -move), rotation>>
          [] key = "S" -> <<P(3, move), rotation>>
          [] key = "A" -> <<P(1, -move), rotation>>
          [] key = "D" -> <<P(1, move), rotation>>
          [] key = "R" -> <<P(2, move), rotation>>
          [] key = "F" -> <<P(2, -move), rotation>>
          [] key = "J" -> <<position, T(2, -rotate)>>
          [] key = "L" -> <<position, T(2, rotate)>>
          [] key = "I" -> <<position, T(1, -rotate)>>
          [] key = "K" -> <<position, T(1, rotate)>>
          [] key = "U" -> <<position, T(3, -rotate)>>
          [] key = "O" -> <<position, T(3, rotate)>>

\* View::keyPressEvent
keyPressEvent(key, shift) ==
    IF key \in CameraKeys
    THEN /\ cam_position' =
               KeyPose(key, shift, cam_position, cam_rotation_degree)[1]
         /\ cam_rotation_degree' =
               KeyPose(key, shift, cam_position, cam_rotation_degree)[2]
         /\ Emit
    ELSE /\ UNCHANGED camV
         /\ NoEmit

-----------------------------------------------------------------------------
(* Public mutators and lifetime.                                           *)

\* View::delete_imported_objects: the GL names still live once every
\* object's non-zero handles are deleted
ReleasedArrays(objects, live) ==
    live \ {objects[i].vao : i \in {j \in 1..Len(objects) : objects[j].vao # 0}}

\* the mutation of ReleasedBuffers that deletes no buffer
LeakedBuffers(objects, live) == live

ReleasedBuffers(objects, live) ==
    live \ {objects[i].vbo : i \in {j \in 1..Len(objects) : objects[j].vbo # 0}}

\* the mutation of delete_imported_objects that forgets
\* imported_objects_.clear()
delete_handles_keep_records ==
    /\ gl_vertex_arrays' = ReleasedArrays(imported_objects_, gl_vertex_arrays)
    /\ gl_buffers' = ReleasedBuffers(imported_objects_, gl_buffers)
    /\ imported_objects_' =
           [i \in 1..Len(imported_objects_) |->
               [imported_objects_[i] EXCEPT !.vao = 0, !.vbo = 0]]
    /\ selected_object_index_' = -1
    /\ dragging_object_' = FALSE

delete_imported_objects ==
    /\ gl_vertex_arrays' = ReleasedArrays(imported_objects_, gl_vertex_arrays)
    /\ gl_buffers' = ReleasedBuffers(imported_objects_, gl_buffers)
    /\ imported_objects_' = <<>>
    /\ selected_object_index_' = -1
    /\ dragging_object_' = FALSE

\* View::reset_all
reset_all ==
    /\ delete_imported_objects
    /\ cam_position' = DefaultCamPosition
    /\ cam_rotation_degree' = DefaultCamRotation
    /\ selected_object_index_' = -1
    /\ rotating' = FALSE
    /\ panning' = FALSE
    /\ scrolling_navigation_' = FALSE
    /\ focus_point_' = Origin
    /\ color_mode_' = "Uniform"
    /\ Emit
    /\ UNCHANGED <<drag_offset_, last_mouse, viewport, alive>>

\* the mutation of load_object that inserts the new object at the front of
\* the collection
load_object_in_front(file) ==
    LET mesh == ImportMesh(file)
    IN  IF ~mesh.ok
        THEN /\ returned' = "false"
             /\ UNCHANGED sceneV
        ELSE LET vao == FreshName(gl_vertex_arrays)
                 vbo == FreshName(gl_buffers)
                 object == [DefaultObject EXCEPT
                               !.vao = vao, !.vbo = vbo,
                               !.base_footprint = mesh.base_footprint,
                               !.radius = mesh.radius]
                 placed == [object EXCEPT
                               !.translation = Place(object, imported_objects_)]
             IN  /\ gl_vertex_arrays' = gl_vertex_arrays \cup {vao}
                 /\ gl_buffers' = gl_buffers \cup {vbo}
                 /\ imported_objects_' = <<placed>> \o imported_objects_
                 /\ returned' = "true"

\* View::load_object
load_object(file) ==
    LET mesh == ImportMesh(file)
    IN  IF ~mesh.ok
        THEN /\ returned' = "false"
             /\ UNCHANGED sceneV
        ELSE LET vao == FreshName(gl_vertex_arrays)
                 vbo == FreshName(gl_buffers)
                 object == [DefaultObject EXCEPT
                               !.vao = vao, !.vbo = vbo,
                               !.base_footprint = mesh.base_footprint,
                               !.radius = mesh.radius]
                 placed == [object EXCEPT
                               !.translation = Place(object, imported_objects_)]
             IN  /\ gl_vertex_arrays' = gl_vertex_arrays \cup {vao}
                 /\ gl_buffers' = gl_buffers \cup {vbo}
                 /\ imported_objects_' = Append(imported_objects_, placed)
                 /\ returned' = "true"

\* View::set_cam_position
set_cam_position(position) ==
    /\ cam_position' = position
    /\ UNCHANGED cam_rotation_degree
    /\ Emit

\* View::set_cam_rotation
set_cam_rotation(rotation) ==
    /\ cam_rotation_degree' = rotation
    /\ UNCHANGED cam_position
    /\ Emit

\* View::set_color_mode
set_color_mode(mode) ==
    color_mode_' = IF color_mode_ = mode THEN color_mode_ ELSE mode

-----------------------------------------------------------------------------
(* The events the widget receives, over the inputs a specification draws.  *)

Buttons == {"Left", "Right", "Middle"}

PressOn(buttons, pixels, dirs, max_camera, max_scene) ==
    \E button \in buttons \ held, pos \in pixels, dir \in dirs :
        /\ alive
        /\ mousePressEvent(button, pos, dir)
        /\ held' = held \cup {button}
        /\ returned' = "void"
        /\ WithinBounds(max_camera, max_scene)

ReleaseOn(max_camera, max_scene) ==
    \E button \in held :
        /\ alive
        /\ mouseReleaseEvent(button)
        /\ held' = held \ {button}
        /\ returned' = "void"
        /\ WithinBounds(max_camera, max_scene)

DoubleClickOn(buttons, pixels, dirs, max_camera, max_scene) ==
    \E button \in buttons \ held, pos \in pixels, dir \in dirs :
        /\ alive
        /\ mouseDoubleClickEvent(button, pos, dir)
        /\ held' = held \cup {button}
        /\ returned' = "void"
        /\ WithinBounds(max_camera, max_scene)

MoveOn(pixels, shifts, dirs, max_camera, max_scene) ==
    \E pos \in pixels, shift \in shifts, dir \in dirs :
        /\ alive
        /\ mouseMoveEvent(pos, shift, dir)
        /\ UNCHANGED held
        /\ returned' = "void"
        /\ WithinBounds(max_camera, max_scene)

WheelOn(angle_deltas, max_camera, max_scene) ==
    \E angle_delta \in angle_deltas :
        /\ alive
        /\ wheelEvent(angle_delta)
        /\ UNCHANGED <<selV, dragV, modeV, last_mouse, widgetV, held>>
        /\ returned' = "void"
        /\ WithinBounds(max_camera, max_scene)

KeyOn(keys, shifts, max_camera, max_scene) ==
    \E key \in keys, shift \in shifts :
        /\ alive
        /\ keyPressEvent(key, shift)
        /\ UNCHANGED <<sceneV, selV, dragV, modeV, last_mouse, widgetV, held>>
        /\ returned' = "void"
        /\ WithinBounds(max_camera, max_scene)

Reset ==
    /\ alive
    /\ reset_all
    /\ UNCHANGED held
    /\ returned' = "void"
    /\ changes' = 0

LoadOn(files, max_objects) ==
    \E file \in files :
        /\ alive
        /\ Len(imported_objects_) < max_objects \/ ~ImportMesh(file).ok
        /\ load_object(file)
        /\ NoEmit
        /\ UNCHANGED <<selV, dragV, camV, modeV, last_mouse, widgetV, held>>
        /\ WithinBounds(0, 0)

SetCamPositionOn(positions, max_camera, max_scene) ==
    \E position \in positions :
        /\ alive
        /\ set_cam_position(position)
        /\ UNCHANGED <<sceneV, selV, dragV, modeV, last_mouse, widgetV, held>>
        /\ returned' = "void"
        /\ WithinBounds(max_camera, max_scene)

SetCamRotationOn(rotations, max_camera, max_scene) ==
    \E rotation \in rotations :
        /\ alive
        /\ set_cam_rotation(rotation)
        /\ UNCHANGED <<sceneV, selV, dragV, modeV, last_mouse, widgetV, held>>
        /\ returned' = "void"
        /\ WithinBounds(max_camera, max_scene)

SetColorModeOn(modes) ==
    \E mode \in modes :
        /\ alive
        /\ set_color_mode(mode)
        /\ NoEmit
        /\ UNCHANGED <<sceneV, selV, dragV, camV, modeV, last_mouse, viewport,
                       alive, held, changes>>
        /\ returned' = "void"

\* a resize of the widget: width() and height() change
ResizeOn(sizes) ==
    \E size \in sizes :
        /\ alive
        /\ viewport' = size
        /\ NoEmit
        /\ UNCHANGED <<sceneV, selV, dragV, camV, modeV, last_mouse,
                       color_mode_, alive, held, changes>>
        /\ returned' = "void"

\* View::~View
Destroy ==
    /\ alive
    /\ delete_imported_objects
    /\ alive' = FALSE
    /\ NoEmit
    /\ UNCHANGED <<drag_offset_, camV, focus_point_, last_mouse, modeV,
                   color_mode_, viewport, held, changes>>
    /\ returned' = "void"

-----------------------------------------------------------------------------
(* Inputs.                                                                 *)

\* cursor positions: a move between them is 10 pixels in x and in y
Pixels == {<<0, 0>>, <<10, 10>>}

\* world-space ray directions under the cursor.  From the default camera:
\* at the object at the origin, at the object 3 units along +X, and above
\* the horizon.
RayDirs == {<<-1, -2, -5>>, <<0, -1, -3>>, <<0, 1, -1>>}

AngleDeltas == {-3000, 0, 3000}

Keys == {"W", "Backspace"}

Files == {"missing.obj", "nomesh.obj", "nopositions.obj", "notriangles.obj",
          "cube.obj"}

-----------------------------------------------------------------------------
(* Spec: the interaction state machine over a scene of imported objects,   *)
(* with the camera at rest.                                                *)

Press == PressOn(Buttons, Pixels, RayDirs, 0, MaxChanges)

Release == ReleaseOn(0, 0)

DoubleClick == DoubleClickOn(Buttons, Pixels, RayDirs, 0, MaxChanges)

Move == MoveOn(Pixels, {FALSE}, RayDirs, 0, MaxChanges)

Wheel == WheelOn(AngleDeltas, 0, MaxChanges)

Key == KeyOn(Keys, {FALSE}, 0, MaxChanges)

Load == LoadOn(Files, MaxObjects)

Next ==
    \/ Press
    \/ Release
    \/ DoubleClick
    \/ Move
    \/ Wheel
    \/ Key
    \/ Reset
    \/ Load
    \/ Destroy

Spec == Init /\ [][Next]_vars

-----------------------------------------------------------------------------
(* SpecPlacement: imports, drags and rescalings with the camera at rest.   *)

PlacementFiles == {"cube.obj", "slab.obj"}

PlacementAngleDeltas == {-3000, 360, 3000}

PlacementLoad == LoadOn(PlacementFiles, MaxPlaced)

PlacementDoubleClick ==
    DoubleClickOn({"Left"}, {<<0, 0>>}, RayDirs, 0, MaxSceneChanges)

PlacementPress == PressOn({"Right"}, {<<0, 0>>}, RayDirs, 0, MaxSceneChanges)

PlacementMove == MoveOn({<<0, 0>>}, {FALSE}, RayDirs, 0, MaxSceneChanges)

PlacementWheel == WheelOn(PlacementAngleDeltas, 0, MaxSceneChanges)

NextPlacement ==
    \/ PlacementLoad
    \/ PlacementDoubleClick
    \/ PlacementPress
    \/ Release
    \/ PlacementMove
    \/ PlacementWheel
    \/ Reset

SpecPlacement == Init /\ [][NextPlacement]_vars

-----------------------------------------------------------------------------
(* SpecCamera: every way of moving the camera.                             *)

CameraRayDirs == {<<-1, -2, -5>>, <<0, 1, -1>>}

CameraAngleDeltas == {-120, 0, 240}

CameraKeyInputs == {"W", "J", "Backspace"}

PositionInputs == {<<60, 70, 290>>}

RotationInputs == {<<-15, 18, 0>>}

CameraLoad == LoadOn({"cube.obj"}, MaxLoaded)

CameraPress == PressOn(Buttons, Pixels, CameraRayDirs, MaxCameraChanges, 0)

CameraDoubleClick ==
    DoubleClickOn({"Left"}, Pixels, CameraRayDirs, MaxCameraChanges, 0)

CameraMove ==
    MoveOn(Pixels, BOOLEAN, CameraRayDirs, MaxCameraChanges, 0)

CameraWheel == WheelOn(CameraAngleDeltas, MaxCameraChanges, 0)

CameraKey == KeyOn(CameraKeyInputs, BOOLEAN, MaxCameraChanges, 0)

SetCamPosition == SetCamPositionOn(PositionInputs, MaxCameraChanges, 0)

SetCamRotation == SetCamRotationOn(RotationInputs, MaxCameraChanges, 0)

NextCamera ==
    \/ CameraLoad
    \/ CameraPress
    \/ Release
    \/ CameraDoubleClick
    \/ CameraMove
    \/ CameraWheel
    \/ CameraKey
    \/ SetCamPosition
    \/ SetCamRotation
    \/ Reset

SpecCamera == Init /\ [][NextCamera]_vars

-----------------------------------------------------------------------------
(* SpecImport: imports that fail and succeed, in a widget in any mode.     *)

Sizes == {<<800, 600>>, <<0, 0>>}

ImportLoad == LoadOn(Files, MaxLoaded)

ImportPress == PressOn(Buttons, {<<0, 0>>}, CameraRayDirs, 0, 0)

ImportDoubleClick == DoubleClickOn({"Left"}, {<<0, 0>>}, CameraRayDirs, 0, 0)

SetColorMode == SetColorModeOn({"Uniform", "Normal"})

Resize == ResizeOn(Sizes)

NextImport ==
    \/ ImportLoad
    \/ ImportPress
    \/ Release
    \/ ImportDoubleClick
    \/ SetColorMode
    \/ Resize
    \/ Reset
    \/ Destroy

SpecImport == Init /\ [][NextImport]_vars

-----------------------------------------------------------------------------
(* SpecWheel: wheel events with and without a selected object.             *)

WheelAngleDeltas == {-3000, 0, 360}

WheelLoad == LoadOn({"cube.obj"}, MaxWheelObjects)

WheelDoubleClick == DoubleClickOn({"Left"}, {<<0, 0>>}, RayDirs, 0, 0)

WheelTurn == WheelOn(WheelAngleDeltas, MaxWheelChanges, MaxWheelChanges)

NextWheel ==
    \/ WheelLoad
    \/ WheelDoubleClick
    \/ Release
    \/ WheelTurn
    \/ Reset

SpecWheel == Init /\ [][NextWheel]_vars

-----------------------------------------------------------------------------
(* SpecReset: one object, the camera, the colour mode and the reset.       *)

ResetLoad == LoadOn({"cube.obj"}, MaxResetObjects)

ResetDoubleClick == DoubleClickOn({"Left"}, {<<0, 0>>}, RayDirs, 0, 0)

ResetPress ==
    PressOn(Buttons, {<<0, 0>>}, RayDirs, MaxResetChanges, MaxResetChanges)

ResetMove ==
    MoveOn(Pixels, {FALSE}, RayDirs, MaxResetChanges, MaxResetChanges)

NextReset ==
    \/ ResetLoad
    \/ ResetDoubleClick
    \/ ResetPress
    \/ Release
    \/ ResetMove
    \/ SetColorMode
    \/ Reset

SpecReset == Init /\ [][NextReset]_vars

-----------------------------------------------------------------------------
(* SpecPick: picking over scenes whose objects have been dragged and       *)
(* rescaled to a grid of places and sizes.                                 *)

\* where a drag can leave an object, and the scales the wheel can leave it
PickPlaces == {<<x, kGroundPlaneY, z>> : x \in {0, 60, 120}, z \in {0, -100}}

PickScales == {100, kMaxObjectScale}

\* the i-th imported cube, dragged to `place` and rescaled to `scale`
PickObject(i, place, scale) ==
    [DefaultObject EXCEPT
        !.vao = i, !.vbo = i,
        !.base_footprint = ImportMesh("cube.obj").base_footprint,
        !.radius = ImportMesh("cube.obj").radius,
        !.translation = place, !.scale = scale]

PickScenes ==
    UNION {{[i \in 1..n |-> PickObject(i, places[i], scales[i])] :
                places \in [1..n -> PickPlaces], scales \in [1..n -> PickScales]} :
           n \in 1..MaxPickObjects}

PickRayDirs == RayDirs \cup {<<1, -2, -5>>}

InitPick ==
    /\ imported_objects_ \in PickScenes
    /\ gl_vertex_arrays = 1..Len(imported_objects_)
    /\ gl_buffers = 1..Len(imported_objects_)
    /\ selected_object_index_ = -1
    /\ dragging_object_ = FALSE
    /\ drag_offset_ = Origin
    /\ cam_position = DefaultCamPosition
    /\ cam_rotation_degree = DefaultCamRotation
    /\ focus_point_ = Origin
    /\ last_mouse = <<0, 0>>
    /\ rotating = FALSE
    /\ panning = FALSE
    /\ scrolling_navigation_ = FALSE
    /\ color_mode_ = "Uniform"
    /\ viewport = <<800, 600>>
    /\ held = {}
    /\ notified = NoPose
    /\ emits = 0
    /\ returned = "void"
    /\ alive = TRUE
    /\ changes = 0

PickDoubleClick == DoubleClickOn({"Left"}, {<<0, 0>>}, PickRayDirs, 0, 0)

PickPress == PressOn({"Left"}, {<<0, 0>>}, PickRayDirs, 0, 0)

NextPick ==
    \/ PickDoubleClick
    \/ PickPress
    \/ Release

SpecPick == InitPick /\ [][NextPick]_vars

-----------------------------------------------------------------------------
(* SpecGround: the ground-plane intersection from cameras above, on and    *)
(* below the ground, over rays that include level and nearly level ones.   *)

GroundOrigins == {DefaultCamPosition, <<60, kGroundPlaneY, 300>>, <<0, -80, 0>>}

GroundRayDirs ==
    RayDirs \cup {<<1, 0, 0>>, <<3, 0, -4>>, <<20000, -1, 0>>, <<20000, 1, 0>>,
                  <<9000, -1, 0>>, <<0, 1, 0>>}

GroundLoad == LoadOn({"cube.obj"}, MaxGroundObjects)

\* the double-click that selects, the scene and the camera staying put
SelectDoubleClick == DoubleClickOn({"Left"}, {<<0, 0>>}, RayDirs, 0, 0)

GroundPress == PressOn({"Right"}, {<<0, 0>>}, GroundRayDirs, 0, 0)

GroundMove == MoveOn({<<0, 0>>}, {FALSE}, GroundRayDirs, 0, MaxGroundChanges)

GroundSetCamPosition ==
    SetCamPositionOn(GroundOrigins, MaxGroundChanges, MaxGroundChanges)

NextGround ==
    \/ GroundLoad
    \/ SelectDoubleClick
    \/ GroundPress
    \/ Release
    \/ GroundMove
    \/ GroundSetCamPosition
    \/ Reset

SpecGround == Init /\ [][NextGround]_vars

-----------------------------------------------------------------------------
(* SpecOrbit: the orbit around the focus point, from the default camera    *)
(* and from a camera straight above the focus.                             *)

OrbitPositions == {DefaultCamPosition, <<0, 70, 0>>}

OrbitLoad == LoadOn({"cube.obj"}, MaxOrbitObjects)

OrbitPress == PressOn({"Middle"}, Pixels, RayDirs, 0, 0)

OrbitMove == MoveOn(Pixels, {FALSE}, {<<0, -1, -3>>}, MaxOrbitChanges, 0)

OrbitSetCamPosition == SetCamPositionOn(OrbitPositions, MaxOrbitChanges, 0)

NextOrbit ==
    \/ OrbitLoad
    \/ SelectDoubleClick
    \/ OrbitPress
    \/ Release
    \/ OrbitMove
    \/ OrbitSetCamPosition
    \/ Reset

SpecOrbit == Init /\ [][NextOrbit]_vars

-----------------------------------------------------------------------------
(* SpecView: the camera set to poses at right angles and at odd angles.    *)

ViewPositions ==
    {DefaultCamPosition, <<0, 0, 0>>, <<-100, 20, 40>>, <<200, -80, -300>>}

ViewRotations ==
    {<<pitch, yaw, roll>> :
        pitch \in {-15, 0, 90}, yaw \in {15, 90, 200}, roll \in {0, -90, 60}}

ViewSetCamPosition ==
    SetCamPositionOn(ViewPositions, MaxViewChanges, MaxViewChanges)

ViewSetCamRotation ==
    SetCamRotationOn(ViewRotations, MaxViewChanges, MaxViewChanges)

NextView ==
    \/ ViewSetCamPosition
    \/ ViewSetCamRotation
    \/ Reset

SpecView == Init /\ [][NextView]_vars

-----------------------------------------------------------------------------
(* Interaction modes and selection, under Spec.                            *)

ActiveModes ==
    {m \in {"OrbitCamera", "PanCamera", "DragObject", "OrbitAroundFocus"} :
        \/ m = "OrbitCamera" /\ rotating
        \/ m = "PanCamera" /\ panning
        \/ m = "DragObject" /\ dragging_object_
        \/ m = "OrbitAroundFocus" /\ scrolling_navigation_}

\* C1: in every reachable state at most one of the interaction modes
\* OrbitCamera (rotating), PanCamera (panning), DragObject
\* (dragging_object_) and OrbitAroundFocus (scrolling_navigation_) is active.
\* The code keeps one independent flag per button, so this fails as soon as
\* two buttons are down.
AtMostOneModeActive == Cardinality(ActiveModes) <= 1

\* C2: a release of the button that drives a mode leaves that mode inactive:
\* while the primary button is up OrbitCamera is inactive, while the
\* secondary button is up DragObject and PanCamera are inactive, while the
\* middle button is up OrbitAroundFocus is inactive; so with no button held
\* no mode is active.
ReleaseReturnsToIdle ==
    /\ "Left" \notin held => ~rotating
    /\ "Right" \notin held => ~dragging_object_ /\ ~panning
    /\ "Middle" \notin held => ~scrolling_navigation_
    /\ held = {} => ActiveModes = {}

\* an object has been dragged off the line Z = 0 and every button has been
\* released again
IdleAfterDrag ==
    /\ held = {}
    /\ ActiveModes = {}
    /\ drag_offset_ # Origin
    /\ \E i \in 1..Len(imported_objects_) :
          imported_objects_[i].translation[3] # 0

\* C3: the selection is none (-1) or a valid index into the object
\* collection, 0 <= index < number of objects, in every reachable state.
SelectionInRange ==
    \/ selected_object_index_ = -1
    \/ /\ 0 <= selected_object_index_
       /\ selected_object_index_ < Len(imported_objects_)

\* the last of two objects is selected
LastObjectSelected ==
    /\ Len(imported_objects_) = 2
    /\ selected_object_index_ = 1

\* C4: the focus point equals the selected object's translation when an
\* object is selected and the world origin when nothing is selected.  A drag
\* moves the selected object and leaves focus_point_ where it was.
FocusFollowsSelection ==
    alive =>
        /\ SelectionValid => focus_point_ = Selected.translation
        /\ selected_object_index_ = -1 => focus_point_ = Origin

\* C6: every object's translation.y equals the ground-plane height.
ObjectsOnGround ==
    \A i \in 1..Len(imported_objects_) :
        imported_objects_[i].translation[2] = kGroundPlaneY

\* an object is being dragged and has left the line Z = 0 that imports
\* place it on
DraggedObjectOnGround ==
    /\ dragging_object_
    /\ SelectionValid
    /\ Selected.translation[3] # 0
    /\ Selected.translation[2] = kGroundPlaneY

-----------------------------------------------------------------------------
(* Scale and placement, under SpecPlacement.                               *)

\* C5: every object's uniform scale stays within [0.25, 8.0], whatever
\* wheel events it has received, and an object just imported has scale 1.0.
ScaleWithinLimits ==
    /\ \A i \in 1..Len(imported_objects_) :
          /\ kMinObjectScale <= imported_objects_[i].scale
          /\ imported_objects_[i].scale <= kMaxObjectScale
    /\ returned = "true" =>
          imported_objects_[Len(imported_objects_)].scale = 100

\* a wheel event has been clamped at the upper limit
ScaleClampedAtMaximum ==
    /\ SelectionValid
    /\ Selected.scale = kMaxObjectScale

\* objects of one footprint, imported into an empty scene and left alone
SameFootprintUntouched ==
    /\ changes = 0
    /\ \A i, j \in 1..Len(imported_objects_) :
          imported_objects_[i].base_footprint =
              imported_objects_[j].base_footprint

\* the footprint circles of objects i and j overlap:
\* distance < (footprint_i * scale_i + footprint_j * scale_j) / 2
FootprintsIntersect(i, j) ==
    LET a == imported_objects_[i]
        b == imported_objects_[j]
        dx == a.translation[1] - b.translation[1]
        dz == a.translation[3] - b.translation[3]
    IN  SqrtLess(dx * dx + dz * dz,
                 a.base_footprint * a.scale + b.base_footprint * b.scale, 200)

\* C7 as the text states it: the object with import index i is placed at
\* X = F * i on the ground, Z = 0.
PlacedOneFootprintApart ==
    SameFootprintUntouched =>
        \A i \in 1..Len(imported_objects_) :
            imported_objects_[i].translation =
                <<imported_objects_[i].base_footprint * (i - 1),
                  kGroundPlaneY, 0>>

\* C7, amended: the object with import index i is placed at X = 2 * F * i on
\* the ground, Z = 0 (a spot F away fails the overlap test, whose epsilon
\* makes touching circles overlap), with no two footprint circles
\* overlapping.
PlacedTwoFootprintsApart ==
    SameFootprintUntouched =>
        /\ \A i \in 1..Len(imported_objects_) :
              imported_objects_[i].translation =
                  <<2 * imported_objects_[i].base_footprint * (i - 1),
                    kGroundPlaneY, 0>>
        /\ \A i, j \in 1..Len(imported_objects_) :
              i # j => ~FootprintsIntersect(i, j)

\* three objects of one footprint stand where the imports put them
ThreeSameFootprintPlaced ==
    /\ SameFootprintUntouched
    /\ Len(imported_objects_) = 3

\* the planar distance between objects i and j is at least the sum of their
\* footprint radii plus the epsilon of 0.05
ClearOfEachOther(i, j) ==
    LET a == imported_objects_[i]
        b == imported_objects_[j]
        dx == a.translation[1] - b.translation[1]
        dz == a.translation[3] - b.translation[3]
    IN  ~SqrtLess(dx * dx + dz * dz,
                  a.base_footprint * a.scale + b.base_footprint * b.scale
                      + 200, 200)

\* C8: immediately after a successful import the new object's footprint
\* circle is clear of that of every object already in the scene, by the
\* sum of the radii plus the 0.05 epsilon, whatever their positions and
\* scales; and an import into an empty scene lands at (0, ground_y, 0).
ImportedClearOfOthers ==
    returned = "true" =>
        /\ \A i \in 1..(Len(imported_objects_) - 1) :
              ClearOfEachOther(i, Len(imported_objects_))
        /\ Len(imported_objects_) = 1 =>
              imported_objects_[1].translation = <<0, kGroundPlaneY, 0>>

\* an import has just succeeded into a scene holding an object that was
\* dragged or rescaled before
ImportedNextToChangedObject ==
    /\ returned = "true"
    /\ Len(imported_objects_) >= 2
    /\ changes > 0

-----------------------------------------------------------------------------
(* Failed imports, under SpecImport.                                       *)

UnusableFiles ==
    {"missing.obj", "nomesh.obj", "nopositions.obj", "notriangles.obj"}

\* C9: when load_object fails (file unreadable or without meshes, mesh
\* without positions, or zero usable triangle vertices) it returns false and
\* leaves the object collection, the selection, the camera pose, the focus
\* point and the interaction flags unchanged, and allocates no GPU handle.
FailedLoadChangesNothing ==
    [][/\ \A file \in UnusableFiles :
              load_object(file) =>
                  /\ returned' = "false"
                  /\ UNCHANGED <<imported_objects_, selected_object_index_,
                                 cam_position, cam_rotation_degree,
                                 focus_point_, rotating, panning,
                                 dragging_object_, scrolling_navigation_,
                                 gl_vertex_arrays, gl_buffers>>
       /\ returned' = "false" =>
              UNCHANGED <<imported_objects_, selected_object_index_,
                          cam_position, cam_rotation_degree, focus_point_,
                          rotating, panning, dragging_object_,
                          scrolling_navigation_, gl_vertex_arrays,
                          gl_buffers>>]_vars

\* a load has failed in a scene with a selected object and a mode active
LoadFailedInBusyScene ==
    /\ returned = "false"
    /\ SelectionValid
    /\ ActiveModes # {}

-----------------------------------------------------------------------------
(* The camera pose notification, under SpecCamera.                         *)

\* C10: after any event handler returns, the last notified pose equals the
\* current camera position and rotation; before the first notification the
\* camera is at the pose it was constructed with.
NotifiedPoseIsCurrent ==
    IF notified = NoPose
    THEN /\ cam_position = DefaultCamPosition
         /\ cam_rotation_degree = DefaultCamRotation
    ELSE notified = [position |-> cam_position,
                     rotation |-> cam_rotation_degree]

\* the camera has been moved away from its default pose and the move was
\* notified
MovedCameraNotified ==
    /\ notified # NoPose
    /\ cam_position # DefaultCamPosition
    /\ cam_rotation_degree # DefaultCamRotation

-----------------------------------------------------------------------------
(* The wheel, under SpecCamera and SpecPlacement.                          *)

\* C11: with no object selected, a wheel event of s non-zero detents
\* decreases camera Z by exactly 0.5 * s (10 ticks per detent), leaves
\* camera X, Y and the rotation unchanged and fires the pose notification
\* exactly once, carrying the new pose; a wheel event of zero detents changes
\* nothing and fires no notification.
WheelDolliesCamera ==
    [][\A angle_delta \in CameraAngleDeltas :
          (wheelEvent(angle_delta) /\ ~SelectionValid) =>
              LET s == angle_delta \div 120
              IN  IF s # 0
                  THEN /\ cam_position' = <<cam_position[1], cam_position[2],
                                            cam_position[3] - 10 * s>>
                       /\ cam_rotation_degree' = cam_rotation_degree
                       /\ emits' = 1
                       /\ notified' = [position |-> cam_position',
                                       rotation |-> cam_rotation_degree']
                  ELSE /\ UNCHANGED <<camV, sceneV, notified>>
                       /\ emits' = 0]_vars

\* a wheel event of two detents has dollied the default camera by one unit
\* and was notified once
CameraDolliedTwoDetents ==
    /\ selected_object_index_ = -1
    /\ cam_position = <<DefaultCamPosition[1], DefaultCamPosition[2],
                        DefaultCamPosition[3] - 20>>
    /\ cam_rotation_degree = DefaultCamRotation
    /\ emits = 1
    /\ notified = [position |-> cam_position, rotation |-> cam_rotation_degree]

\* C12: when a valid object is selected a wheel event of s non-zero detents
\* changes only that object's scale, to clamp(scale * 1.1^s, 0.25, 8.0),
\* and leaves the camera pose, every other object and every translation
\* unchanged, with no camera notification; when nothing is selected it
\* changes only the camera and no object.
WheelScalesOrDollies ==
    [][\A angle_delta \in WheelAngleDeltas :
          (wheelEvent(angle_delta) /\ angle_delta \div 120 # 0) =>
              IF SelectionValid
              THEN LET k == selected_object_index_ + 1
                       scaled ==
                           Clamp((Selected.scale *
                                      PowFactor(angle_delta \div 120))
                                     \div 1000,
                                 kMinObjectScale, kMaxObjectScale)
                   IN  /\ imported_objects_' =
                              [imported_objects_ EXCEPT ![k].scale = scaled]
                       /\ UNCHANGED <<camV, notified>>
                       /\ emits' = 0
              ELSE /\ imported_objects_' = imported_objects_
                   /\ cam_position' # cam_position
                   /\ cam_rotation_degree' = cam_rotation_degree]_vars

\* the second of two objects is selected and has been scaled by three
\* detents, the first keeps scale 1.0, and the camera has not moved
SecondObjectScaledThreeDetents ==
    /\ Len(imported_objects_) = 2
    /\ selected_object_index_ = 1
    /\ imported_objects_[2].scale = 133
    /\ imported_objects_[1].scale = 100
    /\ cam_position = DefaultCamPosition
    /\ notified = NoPose

-----------------------------------------------------------------------------
(* Button handlers, step by step, under Spec.                              *)

\* C13: a primary double-click picks whatever the selection is; when the
\* pick hits object i, afterwards the selection is i, the focus point is
\* object i's translation and DragObject, OrbitCamera and OrbitAroundFocus
\* are all inactive.  The code clears dragging_object_ and rotating only, so
\* a double-click with the middle button down leaves OrbitAroundFocus active.
DoubleClickSelectsAndCancels ==
    [][\A pos \in Pixels, dir \in RayDirs :
          (mouseDoubleClickEvent("Left", pos, dir) /\ pick_object(dir) >= 0) =>
              /\ selected_object_index_' = pick_object(dir)
              /\ focus_point_' =
                     imported_objects_[pick_object(dir) + 1].translation
              /\ ~dragging_object_'
              /\ ~rotating'
              /\ ~scrolling_navigation_']_vars

SecondaryPressDragsOrPans ==
    [][\A pos \in Pixels, dir \in RayDirs :
          mousePressEvent("Right", pos, dir) =>
              LET g == GroundHit(compute_ray(dir))
              IN  IF SelectionValid /\ g.ok
                  THEN /\ dragging_object_'
                       /\ ~panning'
                       /\ drag_offset_' =
                              VSub(imported_objects_[selected_object_index_ + 1]
                                       .translation, g.hit)
                  ELSE /\ panning'
                       /\ ~dragging_object_']_vars

\* a drag has just begun away from the centre of the selected object: the
\* offset is the distance from the ground hit of the press to the object
DragBegunWithOffset ==
    /\ SelectionValid
    /\ dragging_object_
    /\ ~panning
    /\ "Right" \in held
    /\ drag_offset_ # Origin
    /\ \E dir \in RayDirs :
          /\ GroundHit(compute_ray(dir)).ok
          /\ drag_offset_ =
                 VSub(Selected.translation, GroundHit(compute_ray(dir)).hit)


\* C16: during DragObject a pointer-move whose ground intersection succeeds
\* sets the selected object's translation to the new ground hit plus the
\* offset recorded at drag start, with Y at the ground height, and leaves every
\* other object untouched; a move to the cursor position of the press leaves
\* the object where it was, and the release keeps the object's position.
DragMovesSelectedObject ==
    [][/\ \A pos \in Pixels, shift \in BOOLEAN, dir \in RayDirs :
             LET g == GroundHit(compute_ray(dir))
                 k == selected_object_index_ + 1
             IN  ( /\ mouseMoveEvent(pos, shift, dir)
                   /\ dragging_object_ /\ SelectionValid /\ g.ok ) =>
                     /\ Len(imported_objects_') = Len(imported_objects_)
                     /\ imported_objects_'[k].translation =
                            << g.hit[1] + drag_offset_[1], kGroundPlaneY,
                               g.hit[3] + drag_offset_[3] >>
                     /\ imported_objects_'[k] =
                            [imported_objects_[k] EXCEPT
                               !.translation = imported_objects_'[k].translation]
                     /\ \A i \in 1..Len(imported_objects_) :
                            i # k => imported_objects_'[i] = imported_objects_[i]
                     /\ (drag_offset_ =
                             VSub(imported_objects_[k].translation, g.hit)) =>
                            UNCHANGED imported_objects_
                     /\ dragging_object_'
       /\ mouseReleaseEvent("Right") => UNCHANGED imported_objects_]_vars

\* the second of two objects was dragged away from where it was placed and
\* released; the first is still where it was placed
DraggedObjectReleased ==
    /\ Len(imported_objects_) = 2
    /\ selected_object_index_ = 1
    /\ imported_objects_[2].translation[3] # 0
    /\ imported_objects_[2].translation[2] = kGroundPlaneY
    /\ imported_objects_[1].translation = <<0, kGroundPlaneY, 0>>
    /\ ~dragging_object_
    /\ "Right" \notin held


\* C17: during DragObject a pointer-move whose ray misses the ground plane (a
\* ray that does not point downwards from a camera above the ground) changes
\* nothing: the objects, the camera, the selection and the notified pose stay
\* and DragObject stays active; a later secondary-button release leaves
\* DragObject inactive.
DragMissChangesNothing ==
    [][/\ \A pos \in Pixels, shift \in BOOLEAN, dir \in RayDirs :
             ( /\ mouseMoveEvent(pos, shift, dir)
               /\ dragging_object_ /\ SelectionValid
               /\ cam_position[2] > kGroundPlaneY /\ dir[2] >= 0 ) =>
                 /\ UNCHANGED <<imported_objects_, camV, selV, drag_offset_,
                                notified, rotating, panning,
                                scrolling_navigation_>>
                 /\ emits' = 0
                 /\ dragging_object_'
       /\ mouseReleaseEvent("Right") => ~dragging_object_']_vars

\* in the middle of a drag that has already moved the object, with the
\* pointer last seen at the far pixel: a ray over the horizon is among the
\* inputs, and the object stays at its last valid translation
DragHeldAtLastValidPosition ==
    /\ SelectionValid
    /\ dragging_object_
    /\ "Right" \in held
    /\ Selected.translation[3] # 0
    /\ Selected.translation[2] = kGroundPlaneY
    /\ last_mouse = <<10, 10>>
    /\ cam_position[2] > kGroundPlaneY
    /\ \E dir \in RayDirs : dir[2] >= 0 /\ ~intersect_ground_plane(dir).ok


-----------------------------------------------------------------------------
(* A viewport without area, under SpecImport.                              *)

-----------------------------------------------------------------------------
(* The reset, under SpecReset.                                             *)

\* the state reset_all is to restore, in the model's units: position
\* (3, 3.5, 15) in ticks of 0.05
FreshScene ==
    /\ cam_position = <<60, 70, 300>>
    /\ cam_rotation_degree = <<-15, 15, 0>>
    /\ imported_objects_ = <<>>
    /\ selected_object_index_ = -1
    /\ focus_point_ = <<0, 0, 0>>
    /\ ~dragging_object_ /\ ~rotating /\ ~panning /\ ~scrolling_navigation_
    /\ color_mode_ = "Uniform"

\* C19: reset_all, from any reachable state, yields the state of a freshly
\* constructed scene (camera position (3, 3.5, 15), rotation (-15, 15, 0), no
\* objects, no selection, focus at the origin, the four interaction flags
\* inactive, colour mode Uniform) and emits the pose notification once; a
\* second reset_all leaves the state of the first.
ResetRestoresFreshScene ==
    [][reset_all =>
          /\ FreshScene'
          /\ gl_vertex_arrays' = {} /\ gl_buffers' = {}
          /\ emits' = 1
          /\ notified' = [position |-> <<60, 70, 300>>,
                           rotation |-> <<-15, 15, 0>>]
          /\ (FreshScene /\ emits = 1 /\ notified = notified') =>
                 UNCHANGED <<sceneV, selV, dragV, camV, modeV, color_mode_,
                             last_mouse, viewport, alive, notified, emits>>
      ]_vars

\* the scene was reset in the middle of a drag: the button is still down and
\* the offset of the drag is still recorded, and everything else is fresh
ResetDuringDrag ==
    /\ FreshScene
    /\ drag_offset_ # Origin
    /\ "Right" \in held
    /\ emits = 1
    /\ notified = [position |-> cam_position, rotation |-> cam_rotation_degree]


-----------------------------------------------------------------------------
(* GPU handles, under Spec.                                                *)

\* the handles of the objects in the collection
OwnedArrays == {imported_objects_[i].vao : i \in 1..Len(imported_objects_)}

OwnedBuffers == {imported_objects_[i].vbo : i \in 1..Len(imported_objects_)}

\* C20: each imported object owns exactly one vertex-array and one vertex
\* buffer handle; a live handle always belongs to exactly one object in the
\* collection and every object's handles are live, so that the release on
\* reset or teardown releases each handle once and never a handle already
\* released; no handle is live after teardown.
HandlesOwnedByOneObject ==
    /\ \A i \in 1..Len(imported_objects_) :
          /\ imported_objects_[i].vao # 0
          /\ imported_objects_[i].vbo # 0
    /\ \A i, j \in 1..Len(imported_objects_) :
          i # j => /\ imported_objects_[i].vao # imported_objects_[j].vao
                   /\ imported_objects_[i].vbo # imported_objects_[j].vbo
    /\ gl_vertex_arrays = OwnedArrays
    /\ gl_buffers = OwnedBuffers
    /\ ~alive => /\ imported_objects_ = <<>>
                 /\ gl_vertex_arrays = {}
                 /\ gl_buffers = {}

\* the widget was torn down with objects in the scene, one of which had been
\* moved or rescaled since the last reset, and no handle is left
TornDownWithObjects ==
    /\ ~alive
    /\ changes = 1
    /\ imported_objects_ = <<>>
    /\ gl_vertex_arrays = {}
    /\ gl_buffers = {}


-----------------------------------------------------------------------------
(* The documented controls, under SpecCamera and Spec.                     *)

\* the collection without its k-th object (1-based)
WithoutObject(objects, k) ==
    [i \in 1..(Len(objects) - 1) |-> IF i < k THEN objects[i] ELSE objects[i + 1]]

\* C21: pressing Backspace while an object is selected deletes the selected
\* object: it is removed from the collection, its GPU handles are released,
\* the selection becomes none and the other objects are kept.
BackspaceDeletesSelected ==
    [][(CameraKey /\ keyPressEvent("Backspace", FALSE) /\ SelectionValid) =>
              /\ imported_objects_' =
                     WithoutObject(imported_objects_, selected_object_index_ + 1)
              /\ selected_object_index_' = -1
              /\ gl_vertex_arrays' = gl_vertex_arrays \ {Selected.vao}
              /\ gl_buffers' = gl_buffers \ {Selected.vbo}]_vars


\* C22: a right-button click on empty space (the cursor over no object)
\* while an object is selected deselects it: once the button has gone down
\* there, the selection is none.
RightClickOnEmptySpaceDeselects ==
    [][\A pos \in Pixels, dir \in RayDirs :
          ( /\ mousePressEvent("Right", pos, dir)
            /\ "Right" \notin held /\ held' = held \cup {"Right"}
            /\ SelectionValid
            /\ pick_object(dir) < 0 ) =>
              selected_object_index_' = -1]_vars


-----------------------------------------------------------------------------
(* The frame of an import, under SpecPlacement.                            *)

\* C23: a successful import appends the new object at the end of the
\* collection and changes nothing else: every existing object keeps its
\* index, translation, scale, footprint and radius, and the selection, the
\* focus point, the camera pose and the interaction flags are unchanged.
ImportAppendsOnly ==
    [][\A file \in PlacementFiles :
          (load_object(file) /\ returned' = "true") =>
              /\ Len(imported_objects_') = Len(imported_objects_) + 1
              /\ \A i \in 1..Len(imported_objects_) :
                    imported_objects_'[i] = imported_objects_[i]
              /\ UNCHANGED <<selected_object_index_, focus_point_,
                             cam_position, cam_rotation_degree,
                             dragging_object_, rotating, panning,
                             scrolling_navigation_, drag_offset_>>]_vars

\* an object was imported while the first object was selected, had been moved
\* or rescaled, and a button was down: the selection still denotes it
ImportedWhileSelected ==
    /\ returned = "true"
    /\ Len(imported_objects_) >= 2
    /\ selected_object_index_ = 0
    /\ changes = 1
    /\ held # {}


-----------------------------------------------------------------------------
(* The picking engine, under SpecPick.                                     *)

\* the ray meets the object's bounding sphere (centre = translation, radius =
\* radius * scale) at some parameter t >= 0: the line meets the sphere, and
\* the sphere is ahead of the origin or around it
HitsSphere(ray, object) ==
    LET oc == VSub(ray.origin, object.translation)
        r2 == ((object.radius * object.scale) * (object.radius * object.scale))
                  \div 10000
        a  == Dot(ray.direction, ray.direction)
        b  == 2 * Dot(oc, ray.direction)
        c  == Dot(oc, oc) - r2
    IN  /\ b * b - 4 * a * c >= 0
        /\ b <= 0 \/ c <= 0

\* C24: pick_object returns -1 exactly when no object's bounding sphere is hit
\* at a non-negative ray parameter; otherwise it returns the index of the
\* object whose hit parameter is the smallest among all objects hit, the
\* lowest index winning among equal parameters, whatever the list order.
PickIsNearestHit ==
    \A dir \in PickRayDirs :
        LET ray  == compute_ray(dir)
            hits == {i \in 1..Len(imported_objects_) :
                        HitsSphere(ray, imported_objects_[i])}
            T(i) == SphereT(ray, imported_objects_[i])
            p    == pick_object(dir) + 1
        IN  /\ (p = 0) <=> (hits = {})
            /\ hits # {} =>
                  /\ p \in hits
                  /\ \A j \in hits :
                        T(p) < T(j) \/ (T(p) = T(j) /\ p <= j)

\* a double-click has selected the second object on a ray that meets both
\* objects, the second one nearer
NearerSecondObjectPicked ==
    /\ Len(imported_objects_) = 2
    /\ selected_object_index_ = 1
    /\ focus_point_ = imported_objects_[2].translation
    /\ \E dir \in PickRayDirs :
          /\ HitsSphere(compute_ray(dir), imported_objects_[1])
          /\ HitsSphere(compute_ray(dir), imported_objects_[2])
          /\ SphereT(compute_ray(dir), imported_objects_[2]) <
                 SphereT(compute_ray(dir), imported_objects_[1])
          /\ pick_object(dir) = 1

\* two objects at the same distance along a ray: the first is picked
EqualDistanceFirstPicked ==
    /\ Len(imported_objects_) = 2
    /\ selected_object_index_ = 0
    /\ \E dir \in PickRayDirs :
          /\ HitsSphere(compute_ray(dir), imported_objects_[1])
          /\ HitsSphere(compute_ray(dir), imported_objects_[2])
          /\ imported_objects_[1].translation # imported_objects_[2].translation
          /\ SphereT(compute_ray(dir), imported_objects_[2]) =
                 SphereT(compute_ray(dir), imported_objects_[1])


-----------------------------------------------------------------------------
(* The ground-plane intersection, under SpecGround.                        *)

\* |direction.y| < 1e-4 for the unit vector along `direction`:
\* (10000 * |y|)^2 < |direction|^2, computed without the square
NearlyLevel(direction) ==
    LET k == 10000 * Abs(direction[2])
    IN  k = 0 \/ k <= (Dot(direction, direction) - 1) \div k

\* values the caller's hit point may hold before the call
PriorHits == {Origin, <<7, 7, 7>>}

\* C25: intersect_ground_plane returns a miss for every ray with
\* |direction.y| < 1e-4 (direction.y = 0 among them) whatever the origin, and
\* for every ray whose parameter t = (ground_y - origin.y) / direction.y is
\* negative; a hit has Y equal to the ground height and t >= 0; on a miss the
\* output hit point is not written.
GroundPlaneMissesAndHits ==
    \A dir \in GroundRayDirs, prior \in PriorHits :
        LET ray == compute_ray(dir)
            g   == GroundHitInto(ray, prior)
            num == kGroundPlaneY - cam_position[2]
        IN  /\ dir[2] = 0 => ~g.ok
            /\ NearlyLevel(dir) => ~g.ok
            /\ (num * dir[2] < 0) => ~g.ok
            /\ g.ok => /\ g.hit[2] = kGroundPlaneY
                       /\ num * dir[2] >= 0
                       /\ ~NearlyLevel(dir)
                       /\ intersect_ground_plane(dir) = g
            /\ ~g.ok => /\ g.hit = prior
                        /\ ~intersect_ground_plane(dir).ok

\* a drag begun from a camera below the ground on a ray pointing up: the
\* press met the ground from below, while the level and nearly level rays
\* miss it
DragBegunFromBelowGround ==
    /\ SelectionValid
    /\ dragging_object_
    /\ cam_position[2] < kGroundPlaneY
    /\ \E dir \in GroundRayDirs :
          /\ dir[2] > 0
          /\ intersect_ground_plane(dir).ok
          /\ drag_offset_ =
                 VSub(Selected.translation, intersect_ground_plane(dir).hit)
    /\ ~intersect_ground_plane(<<20000, 1, 0>>).ok
    /\ ~intersect_ground_plane(<<3, 0, -4>>).ok


-----------------------------------------------------------------------------
(* The orbit around the focus point, under SpecOrbit.                      *)

\* the square of the XZ distance between two points
PlanarDistanceSq(p, q) ==
    (p[1] - q[1]) * (p[1] - q[1]) + (p[3] - q[3]) * (p[3] - q[3])

\* C26: a pointer-move in OrbitAroundFocus mode keeps the camera on a circle
\* around the focus point: the Y offset from the focus is unchanged, the XZ
\* distance from the focus afterwards is max(previous XZ distance, 0.25),
\* pitch and roll are unchanged, yaw changes by -0.005 rad (0.2865 degrees)
\* per pixel of dx, and the focus point and all objects are unchanged
\* (distances to within 3 ticks, the yaw to the nearest degree).
FocusOrbitKeepsCircle ==
    [][\A pos \in Pixels, dir \in RayDirs :
          ( /\ mouseMoveEvent(pos, FALSE, dir)
            /\ scrolling_navigation_
            /\ ~(dragging_object_ /\ SelectionValid) ) =>
              LET dx     == pos[1] - last_mouse[1]
                  before == ISqrt(PlanarDistanceSq(cam_position, focus_point_))
                  radius == IF before < 5 THEN 5 ELSE before
                  after  == PlanarDistanceSq(cam_position', focus_point_)
                  \* the grid's allowance for a distance that went through
                  \* sine, cosine and two roundings: 3 ticks (0.15 units)
                  OrbitTolerance == 3
              IN  /\ cam_position'[2] - focus_point_[2] =
                         cam_position[2] - focus_point_[2]
                  /\ after >= (radius - OrbitTolerance) * (radius - OrbitTolerance)
                  /\ after <= (radius + OrbitTolerance) * (radius + OrbitTolerance)
                  /\ cam_rotation_degree'[1] = cam_rotation_degree[1]
                  /\ cam_rotation_degree'[3] = cam_rotation_degree[3]
                  /\ Abs(10000 * (cam_rotation_degree[2] - cam_rotation_degree'[2])
                             - 2865 * dx) <= 5000
                  /\ UNCHANGED <<focus_point_, imported_objects_>>]_vars

\* the camera was straight above the focus point when the orbit moved it: it
\* now circles at the least radius, 0.25 (5 ticks), at the height it had
OrbitedAtLeastRadius ==
    /\ scrolling_navigation_
    /\ "Middle" \in held
    /\ cam_rotation_degree[2] # DefaultCamRotation[2]
    /\ cam_position[2] = 70
    /\ PlanarDistanceSq(cam_position, focus_point_) >= 16
    /\ PlanarDistanceSq(cam_position, focus_point_) <= 36
    /\ emits = 1


-----------------------------------------------------------------------------
(* The view matrix, under SpecView.                                        *)

\* every angle of the rotation is a multiple of 90 degrees: sines and
\* cosines are 0, 1 or -1 and the matrices are exact
RightAngles(rotation) == \A i \in 1..3 : rotation[i] % 90 = 0

\* C27: for every camera position and rotation the view matrix
\* V = Rz(-roll) * Rx(-pitch) * Ry(-yaw) * T(-position) maps the camera's own
\* world position to the view-space origin, and its inverse maps the origin
\* back to the camera position (exactly at right angles, to within one tick
\* of rounding otherwise).
ViewMatrixRoundTrip ==
    LET V    == build_view_matrix
        back == Transform(Inverse(V), Origin)
    IN  /\ Transform(V, cam_position) = Origin
        /\ \A i \in 1..3 : Abs(back[i] - cam_position[i]) <= 1
        /\ RightAngles(cam_rotation_degree) => back = cam_position

\* the camera was put away from the origin and turned about all three axes
CameraTurnedAboutAllAxes ==
    /\ cam_position = <<200, -80, -300>>
    /\ cam_rotation_degree = <<-15, 200, 60>>
    /\ notified = [position |-> cam_position, rotation |-> cam_rotation_degree]
    /\ build_view_matrix.translation # VSub(Origin, cam_position)


-----------------------------------------------------------------------------
(* The drag flag and the selection, under Spec.                            *)

\* C28: whenever DragObject is active (dragging_object_ is set) a valid
\* object is selected: no event sequence reaches a state in which the drag
\* flag is set while the selection is none.
DraggingImpliesSelection ==
    dragging_object_ => SelectionValid


\* C29: whenever a pointer-move moves an object (drag flag set and selection
\* valid), the moved object is the one that was selected when the drag offset
\* was recorded at the secondary press.  Step by step: a state with the drag
\* flag set and a valid selection is entered either by a secondary press that
\* records the offset for the object selected then, or from such a state of
\* the same drag, with the same selected object and the same offset.
DragOffsetBelongsToSelection ==
    [][(dragging_object_' /\ SelectionValid') =>
          \/ /\ dragging_object_ /\ SelectionValid
             /\ selected_object_index_' = selected_object_index_
             /\ drag_offset_' = drag_offset_
             /\ imported_objects_'[selected_object_index_ + 1].vao =
                    imported_objects_[selected_object_index_ + 1].vao
          \/ /\ SelectionValid
             /\ "Right" \notin held /\ "Right" \in held'
             /\ selected_object_index_' = selected_object_index_
             /\ UNCHANGED imported_objects_
             /\ \E dir \in RayDirs :
                   /\ GroundHit(compute_ray(dir)).ok
                   /\ drag_offset_' =
                          VSub(Selected.translation,
                               GroundHit(compute_ray(dir)).hit)]_vars

\* the second object is being dragged, after a drag of the first object was
\* ended by the double-click that selected the second one; the first object
\* is where that drag left it
SecondObjectDraggedAfterFirst ==
    /\ Len(imported_objects_) = 2
    /\ selected_object_index_ = 1
    /\ dragging_object_
    /\ "Right" \in held
    /\ imported_objects_[1].translation[3] # 0
    /\ imported_objects_[2].translation[3] = 0


-----------------------------------------------------------------------------
(* What selects an object, under Spec.                                     *)

\* the step takes the selection to an object it did not denote before
SelectsAnObject ==
    /\ selected_object_index_' # selected_object_index_
    /\ selected_object_index_' # -1

\* the step is a primary double-click whose pick hits, and the selection
\* becomes the object hit
DoubleClickThatHits ==
    \E pos \in Pixels, dir \in RayDirs :
        /\ "Left" \notin held /\ held' = held \cup {"Left"}
        /\ PickOnRay(compute_ray(dir), imported_objects_) >= 0
        /\ mouseDoubleClickEvent("Left", pos, dir)
        /\ selected_object_index_' =
               PickOnRay(compute_ray(dir), imported_objects_)

\* the step is a primary double-click whose pick misses
DoubleClickThatMisses ==
    \E pos \in Pixels, dir \in RayDirs :
        /\ "Left" \notin held /\ held' = held \cup {"Left"}
        /\ PickOnRay(compute_ray(dir), imported_objects_) < 0
        /\ mouseDoubleClickEvent("Left", pos, dir)

=============================================================================
